---- MODULE Spec2Model ----
(***************************************************************************)
(* Verum Omnis chat client: the case-file workspace and chat list of       *)
(* App.tsx, the send box of ChatInterface.tsx and the dual-provider        *)
(* orchestrator of services/geminiService.ts.                              *)
(*                                                                         *)
(* A text is a sequence of symbols.  A symbol is the space " ", another    *)
(* whitespace character (tab, newline) or a run of non-whitespace          *)
(* characters that the program never looks into.  An optional field of a   *)
(* TypeScript interface is a set: {} when undefined, {v} when set to v.    *)
(***************************************************************************)
EXTENDS Integers, Sequences, FiniteSets, TLC

VARIABLES
    API_KEY,        \* process.env.API_KEY is configured
    ai,             \* the lazily constructed client handle exists
    orch,           \* a getAssistantResponse invocation made by a direct caller
    seen,           \* history: the outcome each of its two requests settled with
    requests,       \* outbound generateContent requests issued so far
    now,            \* the value Date.now() returns
    chatMessages,   \* App state: the chat list
    isLoading,      \* App state: the busy flag
    caseFiles,      \* App state: the case-file list
    caseFilesRef,   \* caseFilesRef.current
    adds,           \* the handleAddFiles calls made so far
    sends,          \* the handleSendMessage calls made so far
    nextUid         \* history: turns are numbered as they enter the chat list

-----------------------------------------------------------------------------
(* Bounds of the model *)

MaxLen == 3         \* longest provider response drawn from the alphabet
VocabSize == 10     \* distinct words of the long provider responses
MaxCalls == 2       \* calls of handleAddFiles and handleSendMessage by the user interface
MaxBatch == 2       \* files in one FileList
MaxClock == 1       \* milliseconds the clock advances in one session

-----------------------------------------------------------------------------
(* Texts *)

SP == " "
TAB == "\t"
NL == "\n"
Whitespace == {SP, TAB, NL}
Alphabet == {"a", "b", SP, TAB}

None == {}
Some(v) == {v}
The(opt) == CHOOSE v \in opt : TRUE

Range(seq) == {seq[i] : i \in DOMAIN seq}

RECURSIVE SeqsUpTo(_, _)
SeqsUpTo(S, n) ==
    IF n = 0 THEN {<<>>}
    ELSE LET shorter == SeqsUpTo(S, n - 1)
         IN  shorter \cup {Append(s, c) : s \in {t \in shorter : Len(t) = n - 1}, c \in S}

StartsWith(text, prefix) ==
    /\ Len(text) >= Len(prefix)
    /\ SubSeq(text, 1, Len(prefix)) = prefix

\* A split that yields no piece for the empty text.
RECURSIVE splitNoEmptyPiece(_, _)
splitNoEmptyPiece(str, sep) ==
    IF str = <<>> THEN <<>>
    ELSE IF \A i \in DOMAIN str : str[i] # sep THEN <<str>>
    ELSE LET i == CHOOSE k \in DOMAIN str :
                      str[k] = sep /\ \A j \in 1..(k - 1) : str[j] # sep
         IN  <<SubSeq(str, 1, i - 1)>>
                 \o splitNoEmptyPiece(SubSeq(str, i + 1, Len(str)), sep)

\* String.prototype.split with a one-character separator: the pieces between
\* the separators, empty pieces included; a text without separator is one piece.
RECURSIVE split(_, _)
split(str, sep) ==
    IF \A i \in DOMAIN str : str[i] # sep THEN <<str>>
    ELSE LET i == CHOOSE k \in DOMAIN str :
                      str[k] = sep /\ \A j \in 1..(k - 1) : str[j] # sep
         IN  <<SubSeq(str, 1, i - 1)>> \o split(SubSeq(str, i + 1, Len(str)), sep)

\* The words of the long responses: word i is one symbol.
Word(i) == ToString(i)

RECURSIVE JoinWords(_, _)
JoinWords(lo, hi) ==
    IF lo > hi THEN <<>>
    ELSE IF lo = hi THEN <<Word(lo)>>
    ELSE <<Word(lo), SP>> \o JoinWords(lo + 1, hi)

\* Provider responses: every text over the alphabet up to MaxLen symbols, and
\* the runs "lo .. hi" of a vocabulary of VocabSize words, joined by spaces.
ShortTexts == SeqsUpTo(Alphabet, MaxLen)
LongTexts == {JoinWords(lo, hi) : lo \in 1..VocabSize, hi \in 1..VocabSize}
Texts == ShortTexts \cup LongTexts

ErrMessages == {<<>>, <<"timeout">>, <<"quota", SP, "exceeded">>}

\* What one generateContent request can do: resolve with a response whose
\* text is set or undefined, or throw an Error or something else.
Outcomes ==
    {[kind |-> "ok", val |-> Some(t)] : t \in Texts}
        \cup {[kind |-> "ok", val |-> None]}
        \cup {[kind |-> "error", val |-> Some(m)] : m \in ErrMessages}
        \cup {[kind |-> "nonerror", val |-> None]}

-----------------------------------------------------------------------------
(* services/geminiService.ts *)

KeyMissingMessage == <<"Gemini API Key not configured. Set process.env.API_KEY.">>
ErrPrefix == <<"Error", SP, "from", SP, "provider:", SP>>
UnknownError == <<"Unknown", SP, "error">>
FailedPrefix == <<"Failed to get response from AI assistant: ">>
SeeDivergent == <<"See divergent responses.">>

ThresholdNum == 7
ThresholdDen == 10

\* A getAiInstance that does not check the key.
getAiInstanceUnchecked(have) ==
    [threw |-> FALSE, ai |-> TRUE, message |-> <<>>]

\* getAiInstance with handle `have`: throws without the key, else returns
\* the handle, constructing it first when there is none.
getAiInstance(have) ==
    IF ~API_KEY THEN [threw |-> TRUE, ai |-> have, message |-> KeyMissingMessage]
    ELSE [threw |-> FALSE, ai |-> TRUE, message |-> <<>>]

\* A callApi that returns the bare message of the error it caught.
callApiReturnBare(o) ==
    CASE o.kind = "ok" -> IF o.val = None THEN <<>> ELSE The(o.val)
      [] o.kind = "error" -> The(o.val)
      [] OTHER -> UnknownError

\* The string callApi returns once its request has settled with outcome o.
callApiReturn(o) ==
    CASE o.kind = "ok" -> IF o.val = None THEN <<>> ELSE The(o.val)
      [] o.kind = "error" -> ErrPrefix \o The(o.val)
      [] OTHER -> ErrPrefix \o UnknownError

\* A similarity that divides by the size of the first set.
calculateSimilarityOverFirst(str1, str2) ==
    LET set1 == Range(split(str1, SP))
        set2 == Range(split(str2, SP))
        intersection == {x \in set1 : x \in set2}
    IN  [num |-> Cardinality(intersection), den |-> Cardinality(set1)]

\* The quotient intersection.size / union.size, kept as a fraction; a zero
\* denominator stands for NaN.
calculateSimilarity(str1, str2) ==
    LET set1 == Range(split(str1, SP))
        set2 == Range(split(str2, SP))
        intersection == {x \in set1 : x \in set2}
        union == set1 \cup set2
    IN  [num |-> Cardinality(intersection), den |-> Cardinality(union)]

\* A comparison that takes the threshold itself for divergent.
BelowOrAtThreshold(similarity) ==
    /\ similarity.den # 0
    /\ similarity.num * ThresholdDen <= ThresholdNum * similarity.den

\* similarity < 0.7 on numbers; every comparison with NaN is false.
BelowThreshold(similarity) ==
    /\ similarity.den # 0
    /\ similarity.num * ThresholdDen < ThresholdNum * similarity.den

\* A result that carries provider 1's response as consensus in every case.
consensusAlwaysFirst(res1, res2) ==
    LET isDivergent == BelowThreshold(calculateSimilarity(res1, res2))
    IN  [api1Response |-> res1,
         api2Response |-> res2,
         consensusText |-> res1,
         text |-> IF isDivergent THEN SeeDivergent ELSE res1,
         isDivergent |-> isDivergent]

\* Lines 76-92 of getAssistantResponse: the result built from both strings.
consensus(res1, res2) ==
    LET similarity == calculateSimilarity(res1, res2)
        isDivergent == BelowThreshold(similarity)
        consensusText == IF ~isDivergent THEN res1 ELSE <<>>
    IN  [api1Response |-> res1,
         api2Response |-> res2,
         consensusText |-> consensusText,
         text |-> IF isDivergent THEN SeeDivergent ELSE consensusText,
         isDivergent |-> isDivergent]

\* One getAssistantResponse invocation: its promise (status), the two callApi
\* promises and what it resolved or rejected with.
NoCall == [st |-> "none", res |-> <<>>]
IdleInvocation ==
    [status |-> "idle", calls |-> <<NoCall, NoCall>>, result |-> None, error |-> None]

\* callApi up to its first await: getAiInstance is outside the try block, so
\* its exception rejects the promise; otherwise one request has been issued.
callApi(g) ==
    IF g.threw THEN [st |-> "rejected", res |-> <<>>] ELSE [st |-> "inflight", res |-> <<>>]

\* getAssistantResponse up to the await of Promise.all: both callApi calls
\* are started in order; a rejected one rejects Promise.all, and the catch
\* block rethrows the first rejection with the prefix.
getAssistantResponse(have) ==
    LET g1 == getAiInstance(have)
        g2 == getAiInstance(g1.ai)
        threw == g1.threw \/ g2.threw
        message == IF g1.threw THEN g1.message ELSE g2.message
    IN  [inv |-> [status |-> IF threw THEN "rejected" ELSE "pending",
                  calls |-> <<callApi(g1), callApi(g2)>>,
                  result |-> None,
                  error |-> IF threw THEN Some(FailedPrefix \o message) ELSE None],
         ai |-> g2.ai,
         issued |-> Cardinality({g \in {<<1, g1>>, <<2, g2>>} : ~g[2].threw})]

\* The request of call k settles with outcome o: callApi returns its string;
\* when that was the last of a pending Promise.all, the invocation resolves.
callApiSettled(inv, k, o) ==
    LET calls == [inv.calls EXCEPT ![k] = [st |-> "returned", res |-> callApiReturn(o)]]
        all == \A j \in 1..2 : calls[j].st = "returned"
    IN  IF inv.status = "pending" /\ all
        THEN [inv EXCEPT !.calls = calls, !.status = "resolved",
                         !.result = Some(consensus(calls[1].res, calls[2].res))]
        ELSE [inv EXCEPT !.calls = calls]

-----------------------------------------------------------------------------
(* types.ts, services/fileService.ts, App.tsx, components/ChatInterface.tsx *)

appVars == <<now, chatMessages, isLoading, caseFiles, caseFilesRef, adds, sends, nextUid>>
vars == <<API_KEY, ai, orch, seen, requests, now, chatMessages, isLoading, caseFiles,
          caseFilesRef, adds, sends, nextUid>>

USER == "user"
MODEL == "model"
SYSTEM == "system"

\* The files a user can pick: two of them have the same bytes, and one
\* cannot be read.
Files ==
    {[name |-> "a.txt", bytes |-> "b1", readable |-> TRUE],
     [name |-> "b.txt", bytes |-> "b1", readable |-> TRUE],
     [name |-> "c.txt", bytes |-> "b2", readable |-> TRUE],
     [name |-> "d.bin", bytes |-> "b3", readable |-> FALSE]}
FileNamed(name) == CHOOSE f \in Files : f.name = name
\* The FileLists a user hands over, of up to MaxBatch files.
FileLists ==
    {l \in {<<>>, <<"a.txt">>, <<"c.txt">>, <<"d.bin">>, <<"a.txt", "b.txt">>,
            <<"a.txt", "b.txt", "c.txt">>} : Len(l) <= MaxBatch}
UserQueries == {<<>>, <<SP>>, <<"q">>}
AppOutcomes ==
    {[kind |-> "ok", val |-> None],
     [kind |-> "ok", val |-> Some(<<"a">>)],
     [kind |-> "error", val |-> Some(<<"timeout">>)]}

\* The digest is a function of the bytes alone, and so is the decoded text.
calculateSHA512(bytes) == <<"sha512", bytes>>
readTextFromFile(bytes) == IF bytes = "b1" THEN "text one" ELSE "text two"

RECURSIVE trim(_)
trim(str) ==
    IF str = <<>> THEN str
    ELSE IF Head(str) \in Whitespace THEN trim(Tail(str))
    ELSE IF str[Len(str)] \in Whitespace THEN trim(SubSeq(str, 1, Len(str) - 1))
    ELSE str

WelcomeText == <<"Welcome to Verum Omnis. Add files to the Case Workspace and begin your inquiry.">>
KeyErrorText == <<"ERROR: Gemini API Key (process.env.API_KEY) is not configured. Please set this environment variable to use the application.">>
CannotSendText == <<"ERROR: API Key is not configured. Cannot send message.">>
ThinkingText == <<"Thinking...">>
FallbackMessage == <<"Failed to get response from AI.">>
ProcessingText(n) == <<"Processing", SP, ToString(n), SP, "file(s)...">>
ErrorProcessingText(name) == <<"Error", SP, "processing", SP, "file:", SP, name>>
AddedText(n) ==
    <<"Added", SP, ToString(n), SP,
      "new file(s) to the case. Their SHA-512 hashes are now available in the Case Workspace.">>

\* A ChatMessage.  isLoading left undefined is FALSE: the program only tests
\* its truth.  uid is the history number of the turn's place in the list.
Message(uid, id, text, sender, loading) ==
    [uid |-> uid, id |-> id, text |-> text, sender |-> sender, isLoading |-> loading,
     api1Response |-> None, api2Response |-> None, consensusText |-> None,
     isDivergent |-> None, attachments |-> None]

\* Date.now(), read by the step that is being taken.
DateNow == now'

\* A step that reads the clock: it has moved on since the last step, or not.
ClockRead == now' \in {t \in {now, now + 1} : t <= MaxClock}

addMessage(prev, uid, text, sender, loading) ==
    Append(prev, Message(uid, <<"msg", DateNow>>, text, sender, loading))

\* A filter that drops every loading turn, whatever its text.
removeLoading(prev) ==
    LET Keep(m) == ~m.isLoading
    IN  SelectSeq(prev, Keep)

\* Line 80: drop the turns that are loading and start with "Processing".
removeProcessing(prev) ==
    LET Keep(m) == ~(m.isLoading /\ StartsWith(m.text, <<"Processing">>))
    IN  SelectSeq(prev, Keep)

\* Lines 57-67 for file a.files[a.idx] once it has been hashed and read: it
\* is kept unless caseFilesRef.current already holds its hash.
keepFile(a, ref) ==
    LET file == FileNamed(a.files[a.idx])
        hash == calculateSHA512(file.bytes)
    IN  IF \E i \in DOMAIN ref : ref[i].hash = hash
        THEN a.newAttachments
        ELSE Append(a.newAttachments,
                    [name |-> file.name, hash |-> hash,
                     content |-> readTextFromFile(file.bytes)])

\* Lines 128-133: the context string built from caseFilesRef.current.
RECURSIVE joinFiles(_)
joinFiles(ref) ==
    IF ref = <<>> THEN <<>>
    ELSE <<"File: ", ref[1].name, "\nContent: ", ref[1].content>>
             \o (IF Len(ref) = 1 THEN <<>> ELSE <<"\n\n">> \o joinFiles(Tail(ref)))

buildContext(ref) ==
    <<"CASE FILE CONTEXT:\n">>
        \o (IF Len(ref) > 0 THEN joinFiles(ref)
            ELSE <<"No files have been added to the case yet.">>)

\* An update that spreads the response and leaves the turn loading.
settleResolvedStillLoading(prev, placeholder, response) ==
    [i \in DOMAIN prev |->
        IF prev[i].id = placeholder.id
        THEN [placeholder EXCEPT !.uid = prev[i].uid,
                                 !.api1Response = Some(response.api1Response),
                                 !.api2Response = Some(response.api2Response),
                                 !.consensusText = Some(response.consensusText),
                                 !.text = response.text,
                                 !.isDivergent = Some(response.isDivergent)]
        ELSE prev[i]]

\* Lines 138-144: the placeholder's id selects the turns that are replaced.
settleResolved(prev, placeholder, response) ==
    [i \in DOMAIN prev |->
        IF prev[i].id = placeholder.id
        THEN [placeholder EXCEPT !.uid = prev[i].uid,
                                 !.api1Response = Some(response.api1Response),
                                 !.api2Response = Some(response.api2Response),
                                 !.consensusText = Some(response.consensusText),
                                 !.text = response.text,
                                 !.isDivergent = Some(response.isDivergent),
                                 !.isLoading = FALSE]
        ELSE prev[i]]

\* Lines 145-153.
settleRejected(prev, placeholder, message) ==
    LET errorMessage == IF message = <<>> THEN FallbackMessage ELSE message
    IN  [i \in DOMAIN prev |->
            IF prev[i].id = placeholder.id
            THEN [placeholder EXCEPT !.uid = prev[i].uid,
                                     !.text = <<"Error: ">> \o errorMessage,
                                     !.sender = SYSTEM,
                                     !.isLoading = FALSE]
            ELSE prev[i]]

NoMessage == Message(0, <<"none", 0>>, <<>>, SYSTEM, FALSE)

\* A handleSendMessage call: its arguments, the caseFiles of the render it
\* closes over, where it stands and what it has built.
NewSend(query, closure) ==
    [query |-> query, closure |-> closure, pc |-> "addingFiles", outcome |-> "none",
     userMessage |-> NoMessage, placeholder |-> NoMessage, context |-> <<>>,
     inv |-> IdleInvocation]

\* handleSendMessage from line 97 on, up to the await of line 136 and, when
\* getAssistantResponse rejects at once, through the catch and finally
\* blocks.  prev and uid are the chat list and numbering it starts from, ref
\* is caseFilesRef.current.
sendFrom97(s, prev, uid, ref) ==
    IF trim(s.query) = <<>>
    THEN [send |-> [s EXCEPT !.pc = "done", !.outcome = "blank"],
          chatMessages |-> prev, nextUid |-> uid, isLoading |-> isLoading,
          ai |-> ai, issued |-> 0]
    ELSE IF ~API_KEY
    THEN [send |-> [s EXCEPT !.pc = "done", !.outcome = "nokey"],
          chatMessages |-> addMessage(prev, uid, CannotSendText, SYSTEM, FALSE),
          nextUid |-> uid + 1, isLoading |-> isLoading, ai |-> ai, issued |-> 0]
    ELSE LET userMessage ==
                 [Message(uid, <<"user", DateNow>>, s.query, USER, FALSE)
                     EXCEPT !.attachments = Some(s.closure)]
             placeholder == Message(uid + 1, <<"model", DateNow>>, ThinkingText, MODEL, TRUE)
             appended == prev \o <<userMessage, placeholder>>
             r == getAssistantResponse(ai)
             started == [s EXCEPT !.userMessage = userMessage,
                                  !.placeholder = placeholder,
                                  !.context = buildContext(ref),
                                  !.inv = r.inv]
         IN  IF r.inv.status = "rejected"
             THEN [send |-> [started EXCEPT !.pc = "done", !.outcome = "rejected"],
                   chatMessages |->
                       settleRejected(appended, placeholder, The(r.inv.error)),
                   nextUid |-> uid + 2, isLoading |-> FALSE,
                   ai |-> r.ai, issued |-> r.issued]
             ELSE [send |-> [started EXCEPT !.pc = "awaiting"],
                   chatMessages |-> appended,
                   nextUid |-> uid + 2, isLoading |-> TRUE,
                   ai |-> r.ai, issued |-> r.issued]

NewAdd(files, owner) ==
    [files |-> files, idx |-> 1, newAttachments |-> <<>>, owner |-> owner,
     pc |-> "running"]

\* The calls the user interface has made: every handleSendMessage call and
\* every handleAddFiles call that no handleSendMessage call made.
UiCalls == Len(sends) + Cardinality({i \in DOMAIN adds : adds[i].owner = 0})

InitApp ==
    /\ API_KEY \in BOOLEAN
    /\ ai = FALSE
    /\ requests = 0
    /\ now = 0
    /\ chatMessages =
          <<Message(1, <<"msg", 0>>, IF API_KEY THEN WelcomeText ELSE KeyErrorText,
                    SYSTEM, FALSE)>>
    /\ nextUid = 2
    /\ isLoading = FALSE
    /\ caseFiles = <<>>
    /\ caseFilesRef = <<>>
    /\ adds = <<>>
    /\ sends = <<>>

\* handleAddFiles called by the workspace (drop, file input) up to its
\* first await.
handleAddFiles ==
    /\ UiCalls < MaxCalls
    /\ ClockRead
    /\ \E files \in FileLists :
          /\ Len(files) > 0
          /\ chatMessages' =
                addMessage(chatMessages, nextUid, ProcessingText(Len(files)), SYSTEM, TRUE)
          /\ adds' = Append(adds, NewAdd(files, 0))
    /\ nextUid' = nextUid + 1
    /\ UNCHANGED <<API_KEY, ai, orch, seen, requests, isLoading, caseFiles,
                   caseFilesRef, sends>>

\* One file of a running handleAddFiles call has been hashed and read (ok)
\* or has failed to be (~ok): lines 56-74 for it and, after the last file,
\* lines 77-85; a handleSendMessage call that awaited this call goes on from
\* line 97 before the render that follows setCaseFiles, whose effect then
\* stores the new list in caseFilesRef.current.
fileProcessed ==
    \E i \in DOMAIN adds :
        LET a == adds[i]
            ok == FileNamed(a.files[a.idx]).readable
            kept == IF ok THEN keepFile(a, caseFilesRef) ELSE a.newAttachments
            uid1 == IF ok THEN nextUid ELSE nextUid + 1
            prev1 == IF ok THEN chatMessages
                     ELSE addMessage(chatMessages, nextUid,
                                     ErrorProcessingText(a.files[a.idx]),
                                     SYSTEM, FALSE)
        IN  /\ a.pc = "running"
            /\ ClockRead
            /\ IF a.idx < Len(a.files)
               THEN /\ adds' = [adds EXCEPT ![i].idx = a.idx + 1,
                                            ![i].newAttachments = kept]
                    /\ chatMessages' = prev1
                    /\ nextUid' = uid1
                    /\ UNCHANGED <<ai, requests, isLoading, caseFiles, caseFilesRef, sends>>
               ELSE LET prev2 == addMessage(removeProcessing(prev1), uid1,
                                            AddedText(Len(kept)), SYSTEM, FALSE)
                    IN  /\ adds' = [adds EXCEPT ![i].newAttachments = kept,
                                                ![i].pc = "done"]
                        /\ caseFiles' = caseFiles \o kept
                        /\ caseFilesRef' = caseFiles'
                        /\ IF a.owner = 0
                           THEN /\ chatMessages' = prev2
                                /\ nextUid' = uid1 + 1
                                /\ UNCHANGED <<ai, requests, isLoading, sends>>
                           ELSE LET r == sendFrom97(sends[a.owner], prev2, uid1 + 1,
                                                    caseFilesRef)
                                IN  /\ sends' = [sends EXCEPT ![a.owner] = r.send]
                                    /\ chatMessages' = r.chatMessages
                                    /\ nextUid' = r.nextUid
                                    /\ isLoading' = r.isLoading
                                    /\ ai' = r.ai
                                    /\ requests' = requests + r.issued
            /\ UNCHANGED <<API_KEY, orch, seen>>

\* handleRemoveFile from the remove button of a listed attachment; the
\* render of this click runs the effect of lines 22-24.
handleRemoveFile ==
    /\ \E j \in DOMAIN caseFiles :
          LET Keep(file) == file.hash # caseFiles[j].hash
          IN  caseFiles' = SelectSeq(caseFiles, Keep)
    /\ caseFilesRef' = caseFiles'
    /\ UNCHANGED <<API_KEY, ai, orch, seen, requests, now, chatMessages, isLoading,
                   adds, sends, nextUid>>

\* handleSend of the chat box with userQuery typed and files in the file
\* input, and the handleSendMessage call it makes, up to its first await.
handleSendMessage ==
    /\ UiCalls < MaxCalls
    /\ ClockRead
    /\ \E userQuery \in UserQueries, files \in FileLists :
          /\ (trim(userQuery) # <<>> \/ Len(files) > 0) /\ ~isLoading
          /\ LET s == NewSend(trim(userQuery), caseFiles)
             IN  IF Len(files) > 0
                 THEN /\ chatMessages' =
                            addMessage(chatMessages, nextUid, ProcessingText(Len(files)),
                                       SYSTEM, TRUE)
                      /\ nextUid' = nextUid + 1
                      /\ adds' = Append(adds, NewAdd(files, Len(sends) + 1))
                      /\ sends' = Append(sends, s)
                      /\ UNCHANGED <<ai, requests, isLoading>>
                 ELSE LET r == sendFrom97(s, chatMessages, nextUid, caseFilesRef)
                      IN  /\ sends' = Append(sends, r.send)
                          /\ chatMessages' = r.chatMessages
                          /\ nextUid' = r.nextUid
                          /\ isLoading' = r.isLoading
                          /\ ai' = r.ai
                          /\ requests' = requests + r.issued
                          /\ UNCHANGED adds
    /\ UNCHANGED <<API_KEY, orch, seen, caseFiles, caseFilesRef>>

\* A generateContent request of a handleSendMessage call settles; when it
\* is the last one, getAssistantResponse resolves and handleSendMessage runs
\* lines 138-144 and the finally block.
providerSettles ==
    /\ \E i \in DOMAIN sends, k \in 1..2, o \in AppOutcomes :
          LET s == sends[i]
              inv == callApiSettled(s.inv, k, o)
          IN  /\ s.inv.calls[k].st = "inflight"
              /\ IF s.pc = "awaiting" /\ inv.status = "resolved"
                 THEN /\ sends' = [sends EXCEPT ![i].inv = inv, ![i].pc = "done",
                                                ![i].outcome = "resolved"]
                      /\ chatMessages' =
                            settleResolved(chatMessages, s.placeholder, The(inv.result))
                      /\ isLoading' = FALSE
                 ELSE /\ sends' = [sends EXCEPT ![i].inv = inv]
                      /\ UNCHANGED <<chatMessages, isLoading>>
    /\ UNCHANGED <<API_KEY, ai, orch, seen, requests, now, caseFiles, caseFilesRef,
                   adds, nextUid>>

-----------------------------------------------------------------------------
(* The orchestrator under a direct caller *)

InitOrch ==
    /\ API_KEY \in BOOLEAN
    /\ ai = FALSE
    /\ orch = IdleInvocation
    /\ seen = <<None, None>>
    /\ requests = 0
    /\ now = 0
    /\ chatMessages = <<>>
    /\ isLoading = FALSE
    /\ caseFiles = <<>>
    /\ caseFilesRef = <<>>
    /\ adds = <<>>
    /\ sends = <<>>
    /\ nextUid = 1

Invoke ==
    /\ orch.status = "idle"
    /\ LET r == getAssistantResponse(ai)
       IN  /\ orch' = r.inv
           /\ ai' = r.ai
           /\ requests' = requests + r.issued
    /\ UNCHANGED <<API_KEY, seen>>
    /\ UNCHANGED appVars

ProviderSettles ==
    /\ \E k \in 1..2, o \in Outcomes :
          /\ orch.calls[k].st = "inflight"
          /\ orch' = callApiSettled(orch, k, o)
          /\ seen' = [seen EXCEPT ![k] = Some(o)]
    /\ UNCHANGED <<API_KEY, ai, requests>>
    /\ UNCHANGED appVars

NextOrch == Invoke \/ ProviderSettles

SpecOrch == InitOrch /\ [][NextOrch]_vars

-----------------------------------------------------------------------------
(* The application *)

Init ==
    /\ InitApp
    /\ orch = IdleInvocation
    /\ seen = <<None, None>>

Next ==
    \/ handleAddFiles
    \/ fileProcessed
    \/ handleRemoveFile
    \/ handleSendMessage
    \/ providerSettles

Spec == Init /\ [][Next]_vars

-----------------------------------------------------------------------------
(* Claims about the orchestrator, checked under SpecOrch *)

Resolved == orch.status = "resolved"
Res1 == orch.calls[1].res
Res2 == orch.calls[2].res
Result == The(orch.result)

AtLeastThreshold(similarity) ==
    similarity.num * ThresholdDen >= ThresholdNum * similarity.den

\* C5: two provider responses whose similarity is at least 0.7, the value
\* 0.7 included, give isDivergent = false, consensusText equal to provider
\* 1's response verbatim and a display text equal to the consensus text.
C5_ConsensusAtOrAboveThreshold ==
    (Resolved /\ AtLeastThreshold(calculateSimilarity(Res1, Res2)))
        => /\ Result.isDivergent = FALSE
           /\ Result.consensusText = Res1
           /\ Result.text = Result.consensusText

C5_Witness ==
    /\ Resolved
    /\ calculateSimilarity(Res1, Res2) = [num |-> ThresholdNum, den |-> ThresholdDen]
    /\ Result.isDivergent = FALSE
    /\ Res1 # Res2

\* C6: two provider responses whose similarity is below 0.7 give
\* isDivergent = true, an empty consensusText, the display text
\* "See divergent responses." and both raw responses in their slots.
C6_DivergentBelowThreshold ==
    (Resolved /\ ~AtLeastThreshold(calculateSimilarity(Res1, Res2)))
        => /\ Result.isDivergent = TRUE
           /\ Result.consensusText = <<>>
           /\ Result.text = SeeDivergent
           /\ Result.api1Response = Res1
           /\ Result.api2Response = Res2

C6_Witness ==
    /\ Resolved
    /\ calculateSimilarity(Res1, Res2) = [num |-> 6, den |-> 10]
    /\ Result.isDivergent = TRUE

\* The slot of a request that settled with outcome o, as claim C7 has it.
SlotAsClaimed(slot, o) ==
    IF o.kind = "ok"
    THEN slot = (IF o.val = None THEN <<>> ELSE The(o.val))
    ELSE StartsWith(slot, <<"Error", SP, "from", SP, "provider:">>)

\* C7: with the credential present, whatever the two requests do and in
\* whatever order, an invocation never rejects; once both have settled it
\* has resolved, the slot of a request that succeeded holds its response
\* text and the slot of one that threw holds a string beginning with
\* "Error from provider:".
C7_PartialFailureIsolated ==
    (API_KEY /\ orch.status # "idle")
        => /\ orch.status # "rejected"
           /\ \A k \in 1..2 : orch.calls[k].st \in {"inflight", "returned"}
           /\ \A k \in 1..2 :
                 orch.calls[k].st = "returned" => SlotAsClaimed(orch.calls[k].res, The(seen[k]))
           /\ (\A k \in 1..2 : orch.calls[k].st = "returned")
                 => /\ Resolved
                    /\ SlotAsClaimed(Result.api1Response, The(seen[1]))
                    /\ SlotAsClaimed(Result.api2Response, The(seen[2]))

C7_Witness ==
    /\ API_KEY
    /\ Resolved
    /\ The(seen[1]).kind = "ok" /\ The(seen[1]).val = Some(<<"a", SP, "b">>)
    /\ The(seen[2]).kind = "error"
    /\ Result.api1Response = <<"a", SP, "b">>

\* C8: without the credential an invocation fails with an error and no
\* generateContent request is issued by either callApi call.
C8_MissingKeyFailsFast ==
    (~API_KEY /\ orch.status # "idle")
        => /\ orch.status = "rejected"
           /\ orch.error = Some(FailedPrefix \o KeyMissingMessage)
           /\ requests = 0
           /\ \A k \in 1..2 : orch.calls[k].st = "rejected"

C8_Witness == ~API_KEY /\ orch.status = "rejected" /\ requests = 0

\* The whitespace-delimited tokens of a text: its maximal runs of
\* non-whitespace symbols.
WsTokens(str) ==
    {SubSeq(str, i, j) : <<i, j>> \in
        {p \in (DOMAIN str) \X (DOMAIN str) :
            /\ p[1] <= p[2]
            /\ \A k \in p[1]..p[2] : str[k] \notin Whitespace
            /\ p[1] = 1 \/ str[p[1] - 1] \in Whitespace
            /\ p[2] = Len(str) \/ str[p[2] + 1] \in Whitespace}}

\* C9: calculateSimilarity equals |intersection| / |union| of the two sets
\* of whitespace-delimited tokens (wherever that quotient is defined).
C9_JaccardOfWhitespaceTokens ==
    Resolved =>
        LET t1 == WsTokens(Res1)
            t2 == WsTokens(Res2)
            similarity == calculateSimilarity(Res1, Res2)
        IN  (t1 \cup t2 # {})
                => similarity.num * Cardinality(t1 \cup t2)
                       = Cardinality(t1 \cap t2) * similarity.den

\* C10 as stated: calculateSimilarity returns 0 when both response texts
\* are the empty string.
C10_EmptyPairIsZero ==
    (Resolved /\ Res1 = <<>> /\ Res2 = <<>>)
        => calculateSimilarity(Res1, Res2).num = 0

\* C10 amended: calculateSimilarity returns 1 when both response texts are
\* the empty string (each splits into the single empty token).
C10_EmptyPairIsOne ==
    (Resolved /\ Res1 = <<>> /\ Res2 = <<>>)
        => /\ calculateSimilarity(Res1, Res2) = [num |-> 1, den |-> 1]
           /\ Result.isDivergent = FALSE

C10_Witness ==
    /\ Resolved /\ Res1 = <<>> /\ Res2 = <<>>
    /\ The(seen[1]).val = Some(<<>>) /\ The(seen[2]).val = None

\* The number a similarity stands for is 1.
IsOne(similarity) == similarity.den # 0 /\ similarity.num = similarity.den

\* C11: calculateSimilarity(A, A) = 1.0 for every text A, and
\* calculateSimilarity(A, B) = calculateSimilarity(B, A) for all texts A, B.
C11_ReflexiveAndSymmetric ==
    Resolved
        => /\ IsOne(calculateSimilarity(Res1, Res1))
           /\ IsOne(calculateSimilarity(Res2, Res2))
           /\ calculateSimilarity(Res1, Res2) = calculateSimilarity(Res2, Res1)

C11_Witness ==
    /\ Resolved
    /\ Res1 = <<"a", SP, "b">>
    /\ Res2 = <<"a">>
    /\ calculateSimilarity(Res2, Res1) = [num |-> 1, den |-> 2]

\* C15: when at least one of the two requests failed, the result is not
\* isDivergent = false with a consensusText that is an
\* "Error from provider:" placeholder.
C15_NoConsensusOnFailure ==
    (Resolved /\ \E k \in 1..2 : The(seen[k]).kind # "ok")
        => ~(/\ Result.isDivergent = FALSE
             /\ StartsWith(Result.consensusText, <<"Error", SP, "from", SP, "provider:">>))

-----------------------------------------------------------------------------
(* Claims about the application, checked under Spec *)

\* C1: the case-file list never holds two attachments with the same hash.
C1_NoDuplicateHash ==
    \A i, j \in DOMAIN caseFiles :
        caseFiles[i].hash = caseFiles[j].hash => i = j

\* The handleSendMessage calls whose getAssistantResponse call is in flight.
InFlight == {i \in DOMAIN sends : sends[i].pc = "awaiting"}

\* C2: at most one getAssistantResponse call is in flight at any time.
C2_AtMostOneInFlight == Cardinality(InFlight) <= 1

\* The turns that stand where the placeholder of call i was appended.
TurnsOf(msgs, s) ==
    {k \in DOMAIN msgs : msgs[k].uid = s.placeholder.uid}

Settled(s) == s.pc = "done" /\ s.outcome \in {"resolved", "rejected"}

CarriesResponse(m, response) ==
    /\ m.sender = MODEL
    /\ m.text = response.text
    /\ m.api1Response = Some(response.api1Response)
    /\ m.api2Response = Some(response.api2Response)
    /\ m.consensusText = Some(response.consensusText)
    /\ m.isDivergent = Some(response.isDivergent)

\* C3: a placeholder turn is appended pending with the text "Thinking...";
\* in the step in which its getAssistantResponse call settles it stops being
\* pending and carries the response fields, or the text "Error: <message>"
\* as a system turn when the call threw; and the turn of a settled call is
\* in the chat list and never pending again.
C3_PendingTurnIsSettled ==
    [][\A i \in DOMAIN sends' :
          LET turns == TurnsOf(chatMessages', sends'[i])
          IN  /\ (sends'[i].pc = "awaiting" /\ (i \notin DOMAIN sends \/ sends[i].pc # "awaiting"))
                    => /\ turns # {}
                       /\ \A k \in turns :
                             chatMessages'[k].text = ThinkingText
                                 => chatMessages'[k].isLoading
              /\ Settled(sends'[i])
                    => /\ turns # {}
                       /\ \A k \in turns : ~chatMessages'[k].isLoading
              /\ (i \in DOMAIN sends /\ ~Settled(sends[i]) /\ Settled(sends'[i]))
                    => \A k \in turns :
                          IF sends'[i].outcome = "resolved"
                          THEN CarriesResponse(chatMessages'[k], The(sends'[i].inv.result))
                          ELSE /\ chatMessages'[k].sender = SYSTEM
                               /\ chatMessages'[k].text
                                     = <<"Error: ">> \o The(sends'[i].inv.error)]_vars

C3_Witness ==
    \E i \in DOMAIN sends :
        /\ sends[i].outcome = "resolved"
        /\ \E k \in TurnsOf(chatMessages, sends[i]) :
              /\ ~chatMessages[k].isLoading
              /\ CarriesResponse(chatMessages[k], The(sends[i].inv.result))

\* C4: every model turn that is no longer pending has either
\* isDivergent = false and a non-empty consensusText, or isDivergent = true,
\* both provider responses set and an empty consensusText.
C4_ConsensusOrDivergent ==
    \A k \in DOMAIN chatMessages :
        LET m == chatMessages[k]
        IN  (m.sender = MODEL /\ ~m.isLoading)
                => \/ /\ m.isDivergent = Some(FALSE)
                       /\ m.consensusText # None
                       /\ m.consensusText # Some(<<>>)
                   \/ /\ m.isDivergent = Some(TRUE)
                       /\ m.api1Response # None
                       /\ m.api2Response # None
                       /\ m.consensusText = Some(<<>>)

IsProcessing(m) == m.isLoading /\ StartsWith(m.text, <<"Processing">>)

\* C12 as stated: a turn that is in the chat list stays in it; turns are
\* appended or updated in place, never removed.
C12_NoTurnRemoved ==
    [][\A k \in DOMAIN chatMessages :
          \E j \in DOMAIN chatMessages' :
              /\ chatMessages'[j].uid = chatMessages[k].uid
              /\ chatMessages'[j].id = chatMessages[k].id]_vars

\* C12 amended: every turn other than a loading "Processing ..." turn stays
\* in the chat list with its id, and the turns that stay keep their order;
\* a loading "Processing ..." turn is removed when a handleAddFiles call
\* finishes.
C12_OnlyProcessingTurnsRemoved ==
    [][/\ \A k \in DOMAIN chatMessages :
             ~IsProcessing(chatMessages[k])
                 => \E j \in DOMAIN chatMessages' :
                       /\ chatMessages'[j].uid = chatMessages[k].uid
                       /\ chatMessages'[j].id = chatMessages[k].id
       /\ \A j1, j2 \in DOMAIN chatMessages' :
             j1 < j2 => chatMessages'[j1].uid < chatMessages'[j2].uid
       /\ (\E i \in DOMAIN adds : adds[i].pc = "running" /\ adds'[i].pc = "done")
             => \A j \in DOMAIN chatMessages' : ~IsProcessing(chatMessages'[j])]_vars

\* A pending placeholder stands in the list, a handleAddFiles call has
\* finished, and its "Processing ..." turn is gone.
C12_Witness ==
    /\ \E i \in DOMAIN adds : adds[i].pc = "done"
    /\ \E k \in DOMAIN chatMessages :
          chatMessages[k].isLoading /\ chatMessages[k].text = ThinkingText
    /\ \A k \in DOMAIN chatMessages : ~IsProcessing(chatMessages[k])
    /\ Len(chatMessages) < nextUid - 1

\* C13: in the step in which the getAssistantResponse call of a
\* handleSendMessage call settles, every turn other than the placeholder
\* that call appended is left unchanged.
C13_OnlyOwnPlaceholderChanges ==
    [][\A i \in DOMAIN sends :
          (sends[i].pc = "awaiting" /\ Settled(sends'[i]))
              => /\ Len(chatMessages') = Len(chatMessages)
                 /\ \A k \in DOMAIN chatMessages :
                       chatMessages[k].uid # sends[i].placeholder.uid
                           => chatMessages'[k] = chatMessages[k]]_vars

\* C14: the attachments recorded on the user turn of a query are the case
\* files whose contents make up the context string passed to
\* getAssistantResponse for that query.
C14_AttachmentsAreTheContext ==
    \A i \in DOMAIN sends :
        sends[i].userMessage # NoMessage
            => /\ \E k \in DOMAIN chatMessages :
                     chatMessages[k] = sends[i].userMessage
               /\ sends[i].context
                     = buildContext(The(sends[i].userMessage.attachments))
=============================================================================
